---- MODULE Spec2Model ----
(***************************************************************************)
(* Order Management API (src/main.py, src/schemas.py).                     *)
(*                                                                         *)
(* The two MongoDB collections db["customer"] and db["order"] are the      *)
(* state.  Every HTTP handler is one atomic action (single writer); the    *)
(* race specifications split the handlers that read and then write into a  *)
(* read step and a write step, run by two concurrent requests.             *)
(*                                                                         *)
(* Money.  The code computes in binary floating point and rounds the three *)
(* results with round(x, 2).  Unit prices are modelled in whole cents and  *)
(* percents as whole numbers; the unrounded intermediate amounts are kept  *)
(* exactly, in millionths of a currency unit (Micro), and the rounded      *)
(* outputs are whole cents.  All unit prices are multiples of 0.25 and all *)
(* percents multiples of 25, so every intermediate value of the code is a  *)
(* dyadic rational that a double represents exactly: the float arithmetic  *)
(* of compute_totals is exact on these inputs and round(x, 2) rounds the   *)
(* exact value, ties going to the even cent.  The one input outside these  *)
(* sets (PExamples: 2 x 50.00 at 10%, order discount 5%) has no amount at  *)
(* a half cent, so the float error cannot change a rounded output.         *)
(*                                                                         *)
(* Optional[T] values are sequences of length at most one: None is <<>>    *)
(* and a present value v is <<v>>.                                         *)
(***************************************************************************)
EXTENDS Integers, Sequences, FiniteSets, TLC

\* ---------------------------------------------------------------- bounds
MaxCustomers == 2
MaxOrders == 1
MaxItems == 1
PMaxItems == 2
PMaxQty == 2

\* ---------------------------------------------------------- input domains
None == <<>>
Some(v) == <<v>>
IsNone(x) == Len(x) = 0
Val(x) == x[1]

\* a string that is not a 24-digit hex ObjectId
MalformedId == 0
CustomerIds == 1..MaxCustomers
OrderIds == 1..MaxOrders
CustomerIdInputs == CustomerIds \cup {MalformedId}
OrderIdInputs == OrderIds \cup {MalformedId}

Names == {"Ann", "Bob"}
Emails == {"a@x", "b@x"}
StatusInputs == {"Paid"}

\* order discount percents a request may carry; 150 is outside [0,100]
DiscountInputs == {0, 50, 150}

\* unit_price in cents
MkItem(q, p, d) == [quantity |-> q, unit_price |-> p, discount_percent |-> d]

\* one line of 1 x 0.25 at 50%
ItemInputs == {MkItem(1, 25, 50)}

\* an item the OrderItem schema rejects
BadItem == MkItem(0, 25, 0)

SeqsUpTo(S, n) == UNION {[1..k -> S] : k \in 0..n}

ItemSeqInputs == SeqsUpTo(ItemInputs, MaxItems) \cup {<<BadItem>>}

CustomerInputs == [name : Names, email : Emails]

OrderCreateInputs ==
    [customer_id : CustomerIdInputs,
     status : {None} \cup {Some(s) : s \in StatusInputs},
     order_discount_percent : DiscountInputs,
     items : ItemSeqInputs]

OrderUpdateInputs ==
    [status : {None} \cup {Some(s) : s \in StatusInputs},
     order_discount_percent : {None} \cup {Some(p) : p \in DiscountInputs},
     items : {None} \cup {Some(s) : s \in ItemSeqInputs}]

\* ------------------------------------------------------------ schemas.py
OrderItemValid(it) ==
    /\ it.quantity >= 1
    /\ it.unit_price >= 0
    /\ it.discount_percent >= 0
    /\ it.discount_percent <= 100

ItemsValid(items) == \A i \in 1..Len(items) : OrderItemValid(items[i])

\* OrderCreate: only the embedded items carry field constraints
OrderCreateValid(payload) == ItemsValid(payload.items)

\* OrderUpdate: only the embedded items carry field constraints
OrderUpdateValid(payload) ==
    IsNone(payload.items) \/ ItemsValid(Val(payload.items))

\* ------------------------------------------------------------- helpers
ObjectIdValid(id) == id # MalformedId

\* millionths per cent
Micro == 10000

\* Python round(x, 2) of an exactly represented amount x (in millionths),
\* result in cents; a tie goes to the even cent
round2(x) ==
    LET q == x \div Micro
        r == x % Micro
    IN  IF 2 * r < Micro THEN q
        ELSE IF 2 * r > Micro THEN q + 1
        ELSE IF q % 2 = 0 THEN q ELSE q + 1

\* the loop of compute_totals: <<subtotal, item_discount_total>> in millionths
RECURSIVE line_sums(_)
line_sums(items) ==
    IF Len(items) = 0 THEN <<0, 0>>
    ELSE LET n == Len(items)
             it == items[n]
             acc == line_sums(SubSeq(items, 1, n - 1))
             line_sub == it.quantity * it.unit_price * Micro
             line_discount == (line_sub \div 100) * it.discount_percent
         IN  <<acc[1] + line_sub, acc[2] + line_discount>>

\* compute_totals, were the order discount left out of the total
compute_totals_TotalBeforeOrderDiscount(items, order_discount_percent) ==
    LET sums == line_sums(items)
        subtotal == sums[1]
        item_discount_total == sums[2]
        after_item_discounts == subtotal - item_discount_total
        order_discount == (after_item_discounts \div 100) * order_discount_percent
        total_discount == item_discount_total + order_discount
        total == after_item_discounts
    IN  [subtotal |-> round2(subtotal),
         discount_total |-> round2(total_discount),
         total |-> round2(total)]

\* compute_totals, were the order discount taken as an amount, not a percent
compute_totals_FlatDiscount(items, order_discount_percent) ==
    LET sums == line_sums(items)
        subtotal == sums[1]
        item_discount_total == sums[2]
        after_item_discounts == subtotal - item_discount_total
        order_discount == order_discount_percent * 100 * Micro
        total_discount == item_discount_total + order_discount
        total == after_item_discounts - order_discount
    IN  [subtotal |-> round2(subtotal),
         discount_total |-> round2(total_discount),
         total |-> round2(total)]

\* compute_totals, were the order discount taken from the subtotal, not from
\* the amount after item discounts
compute_totals_OrderDiscountOnSubtotal(items, order_discount_percent) ==
    LET sums == line_sums(items)
        subtotal == sums[1]
        item_discount_total == sums[2]
        after_item_discounts == subtotal - item_discount_total
        order_discount == (subtotal \div 100) * order_discount_percent
        total_discount == item_discount_total + order_discount
        total == after_item_discounts - order_discount
    IN  [subtotal |-> round2(subtotal),
         discount_total |-> round2(total_discount),
         total |-> round2(total)]

compute_totals(items, order_discount_percent) ==
    LET sums == line_sums(items)
        subtotal == sums[1]
        item_discount_total == sums[2]
        after_item_discounts == subtotal - item_discount_total
        order_discount == (after_item_discounts \div 100) * order_discount_percent
        total_discount == item_discount_total + order_discount
        total == after_item_discounts - order_discount
    IN  [subtotal |-> round2(subtotal),
         discount_total |-> round2(total_discount),
         total |-> round2(total)]

\* --------------------------------------------------------------- state
VARIABLES
    db_customer,    \* db["customer"]: _id -> document
    db_order,       \* db["order"]: _id -> document
    customer_ids,   \* number of ObjectIds handed out for customers
    order_ids,      \* number of ObjectIds handed out for orders
    last,           \* the last request and its response
    p_items,        \* pricing harness: the item sequence
    p_odp,          \* pricing harness: the order discount percent
    p_out,          \* pricing harness: None, or the triple compute_totals returned
    inflight        \* concurrent requests: where each is, and what it holds

vars ==
    <<db_customer, db_order, customer_ids, order_ids, last, p_items, p_odp, p_out,
      inflight>>

store == <<db_customer, db_order, customer_ids, order_ids>>
harness == <<p_items, p_odp, p_out>>

\* the two concurrent requests of the race specifications
Calls == {"A", "B"}

\* a request between its steps: pc is "idle" (not sent), "insert" or "write"
\* (its read is done, its write is not) or "done"; id is the id in its path,
\* req its body and d the document its read returned
InFlight(pc, id, req, d) == [pc |-> pc, id |-> id, req |-> req, d |-> d]

NoneInFlight == [call \in Calls |-> InFlight("idle", MalformedId, None, None)]

\* what the model keeps of the last request and its response: the handler,
\* the id it addressed (or created), the HTTP status, the request body (of a
\* customer request, and of an order request that was applied) and the
\* customer_name a read attached
Response(op, id, code, req, customer_name) ==
    [op |-> op, id |-> id, code |-> code, req |-> req,
     customer_name |-> customer_name]

\* db[coll].find_one({"_id": ObjectId(id)}) finds a document
Found(coll, id) == id \in DOMAIN coll

\* db["customer"].find_one({"email": email}) finds a document
EmailExists(email) == \E c \in DOMAIN db_customer : db_customer[c].email = email

\* database.create_document: insert under a fresh ObjectId
create_document(coll, new_id, doc) == (new_id :> doc) @@ coll

\* collection.delete_one({"_id": id})
delete_one(coll, id) == [k \in DOMAIN coll \ {id} |-> coll[k]]

\* SetFields, were the document replaced by the fields instead of merged
SetFields_Replace(doc, fields) == fields

\* collection.update_one({"_id": id}, {"$set": fields}): the named fields are
\* overwritten, every other field of the document is kept
SetFields(doc, fields) == fields @@ doc

\* i.model_dump() for an OrderItem
model_dump(it) ==
    [quantity |-> it.quantity, unit_price |-> it.unit_price,
     discount_percent |-> it.discount_percent]

\* OrderItem(**it) for a stored item
OrderItem(it) ==
    [quantity |-> it.quantity, unit_price |-> it.unit_price,
     discount_percent |-> it.discount_percent]

MapSeq(Op(_), s) == [i \in 1..Len(s) |-> Op(s[i])]

NoFields == [f \in {} |-> 0]

Init ==
    /\ db_customer = NoFields
    /\ db_order = NoFields
    /\ customer_ids = 0
    /\ order_ids = 0
    /\ last = Response("init", MalformedId, 200, None, None)
    /\ p_items = <<>>
    /\ p_odp = 0
    /\ p_out = None
    /\ inflight = NoneInFlight

\* ------------------------------------------------------------ customers
\* create_customer_status, were the email lookup left out
create_customer_status_NoLookup(customer) == 200

\* create_customer, lines 60-62
create_customer_status(customer) ==
    IF EmailExists(customer.email) THEN 400 ELSE 200

\* POST /customers
create_customer(customer) ==
    LET code == create_customer_status(customer)
        new_id == customer_ids + 1
    IN  /\ IF code = 200
           THEN /\ customer_ids < MaxCustomers
                /\ db_customer' = create_document(db_customer, new_id, customer)
                /\ customer_ids' = new_id
                /\ last' = Response("create_customer", new_id, code, Some(customer), None)
                /\ UNCHANGED <<db_order, order_ids>>
           ELSE /\ last' = Response("create_customer", MalformedId, code, Some(customer), None)
                /\ UNCHANGED store
        /\ UNCHANGED <<harness, inflight>>

\* the status of a handler that looks a document up by the id in its path
by_id_status(coll, id) ==
    IF ~ObjectIdValid(id) THEN 500
    ELSE IF ~Found(coll, id) THEN 404
    ELSE 200

\* PUT /customers/{customer_id}
update_customer(customer_id, customer) ==
    LET code == by_id_status(db_customer, customer_id)
    IN  /\ last' = Response("update_customer", customer_id, code, Some(customer), None)
        /\ IF code = 200
           THEN /\ db_customer' = [db_customer EXCEPT
                                     ![customer_id] = SetFields(@, customer)]
                /\ UNCHANGED <<db_order, customer_ids, order_ids>>
           ELSE UNCHANGED store
        /\ UNCHANGED <<harness, inflight>>

\* DELETE /customers/{customer_id}
delete_customer(customer_id) ==
    LET code == by_id_status(db_customer, customer_id)
    IN  /\ last' = Response("delete_customer", customer_id, code, None, None)
        /\ IF code = 200
           THEN /\ db_customer' = delete_one(db_customer, customer_id)
                /\ UNCHANGED <<db_order, customer_ids, order_ids>>
           ELSE UNCHANGED store
        /\ UNCHANGED <<harness, inflight>>

\* --------------------------------------------------------------- orders
\* create_order, lines 114-121: the document to insert
order_doc(payload) ==
    LET totals == compute_totals(payload.items, payload.order_discount_percent)
        status == IF IsNone(payload.status) \/ payload.status = Some("")
                  THEN "Pending" ELSE Val(payload.status)
    IN  [customer_id |-> payload.customer_id,
         status |-> status,
         order_discount_percent |-> payload.order_discount_percent,
         items |-> MapSeq(model_dump, payload.items)] @@ totals

\* create_order: request validation, then lines 111-113
create_order_status(payload) ==
    IF ~OrderCreateValid(payload) THEN 422
    ELSE IF ~ObjectIdValid(payload.customer_id) THEN 500
    ELSE IF ~Found(db_customer, payload.customer_id) THEN 400
    ELSE 200

\* POST /orders
create_order(payload) ==
    LET code == create_order_status(payload)
        new_id == order_ids + 1
    IN  /\ IF code = 200
           THEN /\ order_ids < MaxOrders
                /\ db_order' = create_document(db_order, new_id, order_doc(payload))
                /\ order_ids' = new_id
                /\ last' = Response("create_order", new_id, code, Some(payload), None)
                /\ UNCHANGED <<db_customer, customer_ids>>
           ELSE /\ last' = Response("create_order", MalformedId, code, None, None)
                /\ UNCHANGED store
        /\ UNCHANGED <<harness, inflight>>

\* get_order, lines 149-150: the customer name attached to a read order
customer_name(d) ==
    IF Found(db_customer, d.customer_id)
    THEN Some(db_customer[d.customer_id].name)
    ELSE None

\* get_order_response, were the name read from the customer without the
\* check that one was found
get_order_response_Strict(order_id) ==
    LET code == by_id_status(db_order, order_id)
    IN  IF code = 200 /\ ~Found(db_customer, db_order[order_id].customer_id)
        THEN Response("get_order", order_id, 500, None, None)
        ELSE Response("get_order", order_id, code, None,
                      IF code = 200 THEN customer_name(db_order[order_id]) ELSE None)

\* get_order, lines 146-151: the response
get_order_response(order_id) ==
    LET code == by_id_status(db_order, order_id)
    IN  Response("get_order", order_id, code, None,
                 IF code = 200 THEN customer_name(db_order[order_id]) ELSE None)

\* GET /orders/{order_id}
get_order(order_id) ==
    /\ last' = get_order_response(order_id)
    /\ UNCHANGED store
    /\ UNCHANGED <<harness, inflight>>

\* recomputed, were the totals recomputed only when items are supplied
recomputed_ItemsOnly(d, payload) ==
    IF ~IsNone(payload.items)
    THEN compute_totals(
             Val(payload.items),
             IF ~IsNone(payload.order_discount_percent)
             THEN Val(payload.order_discount_percent)
             ELSE d.order_discount_percent)
    ELSE NoFields

\* recomputed, were an omitted field defaulted to [] or 0 instead of taken
\* from the persisted order
recomputed_Defaults(d, payload) ==
    IF ~IsNone(payload.items) \/ ~IsNone(payload.order_discount_percent)
    THEN compute_totals(
             IF ~IsNone(payload.items) THEN Val(payload.items) ELSE <<>>,
             IF ~IsNone(payload.order_discount_percent)
             THEN Val(payload.order_discount_percent)
             ELSE 0)
    ELSE NoFields

\* recomputed, were every update re-priced from the request's own fields
recomputed_Always(d, payload) ==
    compute_totals(
        IF ~IsNone(payload.items) THEN Val(payload.items) ELSE <<>>,
        IF ~IsNone(payload.order_discount_percent)
        THEN Val(payload.order_discount_percent)
        ELSE 0)

\* update_order, lines 173-178: the recomputed totals, or no fields
recomputed(d, payload) ==
    IF ~IsNone(payload.items) \/ ~IsNone(payload.order_discount_percent)
    THEN compute_totals(
             IF ~IsNone(payload.items) THEN Val(payload.items)
             ELSE MapSeq(OrderItem, d.items),
             IF ~IsNone(payload.order_discount_percent)
             THEN Val(payload.order_discount_percent)
             ELSE d.order_discount_percent)
    ELSE NoFields

\* update_fields, were an omitted status defaulted as create_order does
update_fields_StatusDefault(d, payload) ==
    LET status == [status |-> IF IsNone(payload.status) THEN "Pending"
                              ELSE Val(payload.status)]
        items == IF ~IsNone(payload.items)
                 THEN [items |-> MapSeq(model_dump, Val(payload.items))] ELSE NoFields
        discount == IF ~IsNone(payload.order_discount_percent)
                    THEN [order_discount_percent |-> Val(payload.order_discount_percent)]
                    ELSE NoFields
    IN  recomputed(d, payload) @@ discount @@ items @@ status

\* update_fields, were the recomputed totals left out of the $set
update_fields_NoTotals(d, payload) ==
    LET status == IF ~IsNone(payload.status)
                  THEN [status |-> Val(payload.status)] ELSE NoFields
        items == IF ~IsNone(payload.items)
                 THEN [items |-> MapSeq(model_dump, Val(payload.items))] ELSE NoFields
        discount == IF ~IsNone(payload.order_discount_percent)
                    THEN [order_discount_percent |-> Val(payload.order_discount_percent)]
                    ELSE NoFields
    IN  discount @@ items @@ status

\* update_order, lines 165-178: the fields to $set
update_fields(d, payload) ==
    LET status == IF ~IsNone(payload.status)
                  THEN [status |-> Val(payload.status)] ELSE NoFields
        items == IF ~IsNone(payload.items)
                 THEN [items |-> MapSeq(model_dump, Val(payload.items))] ELSE NoFields
        discount == IF ~IsNone(payload.order_discount_percent)
                    THEN [order_discount_percent |-> Val(payload.order_discount_percent)]
                    ELSE NoFields
    IN  recomputed(d, payload) @@ discount @@ items @@ status

\* update_order: request validation, then lines 162-164
update_order_status(order_id, payload) ==
    IF ~OrderUpdateValid(payload) THEN 422
    ELSE by_id_status(db_order, order_id)

\* the fields an OrderUpdate supplies
Supplied(payload) ==
    {f \in {"status", "order_discount_percent", "items"} : ~IsNone(payload[f])}

\* PUT /orders/{order_id}
update_order(order_id, payload) ==
    LET code == update_order_status(order_id, payload)
    IN  /\ last' = Response("update_order", order_id, code,
                            IF code = 200 THEN Some(payload) ELSE None, None)
        /\ IF code = 200
           THEN LET d == db_order[order_id]
                    fields == update_fields(d, payload)
                IN  IF DOMAIN fields = {}
                    THEN UNCHANGED store
                    ELSE /\ db_order' = [db_order EXCEPT
                                           ![order_id] = SetFields(d, fields)]
                         /\ UNCHANGED <<db_customer, customer_ids, order_ids>>
           ELSE UNCHANGED store
        /\ UNCHANGED <<harness, inflight>>

\* DELETE /orders/{order_id}
delete_order(order_id) ==
    LET code == by_id_status(db_order, order_id)
    IN  /\ last' = Response("delete_order", order_id, code, None, None)
        /\ IF code = 200
           THEN /\ db_order' = delete_one(db_order, order_id)
                /\ UNCHANGED <<db_customer, customer_ids, order_ids>>
           ELSE UNCHANGED store
        /\ UNCHANGED <<harness, inflight>>

\* ------------------------------------------------------ specifications
\* the whole API
Next ==
    \/ \E customer \in CustomerInputs : create_customer(customer)
    \/ \E customer_id \in CustomerIdInputs, customer \in CustomerInputs :
           update_customer(customer_id, customer)
    \/ \E customer_id \in CustomerIdInputs : delete_customer(customer_id)
    \/ \E payload \in OrderCreateInputs : create_order(payload)
    \/ \E order_id \in OrderIdInputs : get_order(order_id)
    \/ \E order_id \in OrderIdInputs, payload \in OrderUpdateInputs :
           update_order(order_id, payload)
    \/ \E order_id \in OrderIdInputs : delete_order(order_id)

Spec == Init /\ [][Next]_vars

\* the customer endpoints alone, from the empty database
NextCustomers ==
    \/ \E customer \in CustomerInputs : create_customer(customer)
    \/ \E customer_id \in CustomerIdInputs, customer \in CustomerInputs :
           update_customer(customer_id, customer)
    \/ \E customer_id \in CustomerIdInputs : delete_customer(customer_id)

SpecCustomers == Init /\ [][NextCustomers]_vars

\* the order endpoints and delete_customer, from the database that holds one
\* customer (the state after one create_customer)
FirstCustomer == [name |-> "Ann", email |-> "a@x"]

InitOrders ==
    /\ db_customer = create_document(NoFields, 1, FirstCustomer)
    /\ db_order = NoFields
    /\ customer_ids = 1
    /\ order_ids = 0
    /\ last = Response("create_customer", 1, 200, Some(FirstCustomer), None)
    /\ p_items = <<>>
    /\ p_odp = 0
    /\ p_out = None
    /\ inflight = NoneInFlight

NextOrders ==
    \/ \E customer_id \in CustomerIdInputs : delete_customer(customer_id)
    \/ \E payload \in OrderCreateInputs : create_order(payload)
    \/ \E order_id \in OrderIdInputs : get_order(order_id)
    \/ \E order_id \in OrderIdInputs, payload \in OrderUpdateInputs :
           update_order(order_id, payload)
    \/ \E order_id \in OrderIdInputs : delete_order(order_id)

SpecOrders == InitOrders /\ [][NextOrders]_vars

\* ------------------------------------------------------- pricing harness
\* compute_totals applied to every item sequence and order discount of the
\* harness domains
PUnitPrices == {0, 25, 75}
PItemPercents == {0, 25, 50, 100}
PDiscounts == {0, 25, 50, 75, 100}

PItemInputs ==
    {MkItem(q, p, d) : q \in 1..PMaxQty, p \in PUnitPrices, d \in PItemPercents}

\* 2 x 50.00 at 10% with an order discount of 5%
PExamples == {[items |-> <<MkItem(2, 5000, 10)>>, odp |-> 5]}

PInputs == [items : SeqsUpTo(PItemInputs, PMaxItems), odp : PDiscounts] \cup PExamples

InitPricing ==
    /\ db_customer = NoFields
    /\ db_order = NoFields
    /\ customer_ids = 0
    /\ order_ids = 0
    /\ last = Response("init", MalformedId, 200, None, None)
    /\ \E input \in PInputs : p_items = input.items /\ p_odp = input.odp
    /\ p_out = None
    /\ inflight = NoneInFlight

Price ==
    /\ IsNone(p_out)
    /\ p_out' = Some(compute_totals(p_items, p_odp))
    /\ UNCHANGED <<store, last, p_items, p_odp, inflight>>

NextPricing == Price

SpecPricing == InitPricing /\ [][NextPricing]_vars

\* ----------------------------------------------------------------- races
\* Each of the two requests in Calls is sent once.  The handlers that read
\* and then write are two steps; another request may run between them.
Sent(call, pc, id, req, d) ==
    inflight' = [inflight EXCEPT ![call] = InFlight(pc, id, req, d)]

\* create_customer, lines 60-62: the lookup by email
create_customer_lookup(call, customer) ==
    /\ inflight[call].pc = "idle"
    /\ IF create_customer_status(customer) = 200
       THEN /\ Sent(call, "insert", MalformedId, Some(customer), None)
            /\ UNCHANGED last
       ELSE /\ Sent(call, "done", MalformedId, Some(customer), None)
            /\ last' = Response("create_customer", MalformedId, 400,
                                Some(customer), None)
    /\ UNCHANGED <<store, harness>>

\* create_customer_insert, were the insert conditional on the email still
\* being free (a unique index)
create_customer_insert_Checked(call) ==
    LET customer == Val(inflight[call].req)
        code == create_customer_status(customer)
        new_id == customer_ids + 1
    IN  /\ inflight[call].pc = "insert"
        /\ IF code = 200
           THEN /\ customer_ids < MaxCustomers
                /\ db_customer' = create_document(db_customer, new_id, customer)
                /\ customer_ids' = new_id
                /\ Sent(call, "done", new_id, Some(customer), None)
                /\ last' = Response("create_customer", new_id, 200, Some(customer), None)
                /\ UNCHANGED <<db_order, order_ids>>
           ELSE /\ Sent(call, "done", MalformedId, Some(customer), None)
                /\ last' = Response("create_customer", MalformedId, code,
                                    Some(customer), None)
                /\ UNCHANGED store
        /\ UNCHANGED harness

\* create_customer, lines 63-65: the insert
create_customer_insert(call) ==
    LET customer == Val(inflight[call].req)
        new_id == customer_ids + 1
    IN  /\ inflight[call].pc = "insert"
        /\ customer_ids < MaxCustomers
        /\ db_customer' = create_document(db_customer, new_id, customer)
        /\ customer_ids' = new_id
        /\ Sent(call, "done", new_id, Some(customer), None)
        /\ last' = Response("create_customer", new_id, 200, Some(customer), None)
        /\ UNCHANGED <<db_order, order_ids, harness>>

NextCustomerRace ==
    \/ \E call \in Calls, customer \in CustomerInputs :
           create_customer_lookup(call, customer)
    \/ \E call \in Calls : create_customer_insert(call)

SpecCustomerRace == Init /\ [][NextCustomerRace]_vars

\* create_order, lines 111-113: the lookup of the customer
create_order_lookup(call, payload) ==
    LET code == create_order_status(payload)
    IN  /\ inflight[call].pc = "idle"
        /\ IF code = 200
           THEN /\ Sent(call, "insert", MalformedId, Some(payload), None)
                /\ UNCHANGED last
           ELSE /\ Sent(call, "done", MalformedId, None, None)
                /\ last' = Response("create_order", MalformedId, code, None, None)
        /\ UNCHANGED <<store, harness>>

\* create_order_insert, were the customer looked up again in one transaction
\* with the insert
create_order_insert_Checked(call) ==
    LET payload == Val(inflight[call].req)
        code == create_order_status(payload)
        new_id == order_ids + 1
    IN  /\ inflight[call].pc = "insert"
        /\ IF code = 200
           THEN /\ order_ids < MaxOrders
                /\ db_order' = create_document(db_order, new_id, order_doc(payload))
                /\ order_ids' = new_id
                /\ Sent(call, "done", new_id, Some(payload), None)
                /\ last' = Response("create_order", new_id, 200, Some(payload), None)
                /\ UNCHANGED <<db_customer, customer_ids>>
           ELSE /\ Sent(call, "done", MalformedId, None, None)
                /\ last' = Response("create_order", MalformedId, code, None, None)
                /\ UNCHANGED store
        /\ UNCHANGED harness

\* create_order, lines 114-124: pricing and the insert
create_order_insert(call) ==
    LET payload == Val(inflight[call].req)
        new_id == order_ids + 1
    IN  /\ inflight[call].pc = "insert"
        /\ order_ids < MaxOrders
        /\ db_order' = create_document(db_order, new_id, order_doc(payload))
        /\ order_ids' = new_id
        /\ Sent(call, "done", new_id, Some(payload), None)
        /\ last' = Response("create_order", new_id, 200, Some(payload), None)
        /\ UNCHANGED <<db_customer, customer_ids, harness>>

InitOrderRace == InitOrders

NextOrderRace ==
    \/ \E call \in Calls, payload \in OrderCreateInputs :
           create_order_lookup(call, payload)
    \/ \E call \in Calls : create_order_insert(call)
    \/ \E customer_id \in CustomerIdInputs : delete_customer(customer_id)

SpecOrderRace == InitOrderRace /\ [][NextOrderRace]_vars

\* update_order, lines 162-164: the read of the order
update_order_read(call, order_id, payload) ==
    LET code == update_order_status(order_id, payload)
    IN  /\ inflight[call].pc = "idle"
        /\ IF code = 200
           THEN /\ Sent(call, "write", order_id, Some(payload),
                        Some(db_order[order_id]))
                /\ UNCHANGED last
           ELSE /\ Sent(call, "done", order_id, None, None)
                /\ last' = Response("update_order", order_id, code, None, None)
        /\ UNCHANGED <<store, harness>>

\* update_order_write, were the fields computed from the order as stored at
\* the write instead of as read at line 162
update_order_write_Fresh(call) ==
    LET order_id == inflight[call].id
        payload == Val(inflight[call].req)
    IN  /\ inflight[call].pc = "write"
        /\ Sent(call, "done", order_id, Some(payload), inflight[call].d)
        /\ last' = Response("update_order", order_id, 200, Some(payload), None)
        /\ IF Found(db_order, order_id)
              /\ DOMAIN update_fields(db_order[order_id], payload) # {}
           THEN /\ db_order' = [db_order EXCEPT
                                  ![order_id] =
                                      SetFields(@, update_fields(@, payload))]
                /\ UNCHANGED <<db_customer, customer_ids, order_ids>>
           ELSE UNCHANGED store
        /\ UNCHANGED harness

\* update_order, lines 165-183: the fields computed from the order as read,
\* then the $set on the order as stored
update_order_write(call) ==
    LET order_id == inflight[call].id
        payload == Val(inflight[call].req)
        d == Val(inflight[call].d)
        fields == update_fields(d, payload)
    IN  /\ inflight[call].pc = "write"
        /\ Sent(call, "done", order_id, Some(payload), inflight[call].d)
        /\ last' = Response("update_order", order_id, 200, Some(payload), None)
        /\ IF DOMAIN fields # {} /\ Found(db_order, order_id)
           THEN /\ db_order' = [db_order EXCEPT
                                  ![order_id] = SetFields(@, fields)]
                /\ UNCHANGED <<db_customer, customer_ids, order_ids>>
           ELSE UNCHANGED store
        /\ UNCHANGED harness

\* the database that holds one customer and one order of that customer (the
\* state after one create_customer and one create_order)
InitUpdateRace ==
    /\ db_customer = create_document(NoFields, 1, FirstCustomer)
    /\ customer_ids = 1
    /\ \E payload \in OrderCreateInputs :
           /\ OrderCreateValid(payload)
           /\ payload.customer_id = 1
           /\ db_order = create_document(NoFields, 1, order_doc(payload))
           /\ last = Response("create_order", 1, 200, Some(payload), None)
    /\ order_ids = 1
    /\ p_items = <<>>
    /\ p_odp = 0
    /\ p_out = None
    /\ inflight = NoneInFlight

NextUpdateRace ==
    \/ \E call \in Calls, order_id \in OrderIdInputs, payload \in OrderUpdateInputs :
           update_order_read(call, order_id, payload)
    \/ \E call \in Calls : update_order_write(call)

SpecUpdateRace == InitUpdateRace /\ [][NextUpdateRace]_vars

\* ----------------------------------------------------------------- claims
Derived(d) ==
    [subtotal |-> d.subtotal, discount_total |-> d.discount_total, total |-> d.total]

\* last is an update_order that was applied
Updated == last.op = "update_order" /\ last.code = 200

\* C1: every stored order's (subtotal, discount_total, total) is what
\* compute_totals returns for the order's stored items and stored
\* order_discount_percent.
C1_DerivedFieldsArePriced ==
    \A o \in DOMAIN db_order :
        Derived(db_order[o]) =
            compute_totals(MapSeq(OrderItem, db_order[o].items),
                           db_order[o].order_discount_percent)

\* a discount-only update of an order that has items has been applied
C1_Witness ==
    /\ Updated
    /\ Supplied(Val(last.req)) = {"order_discount_percent"}
    /\ Len(db_order[last.id].items) > 0
    /\ db_order[last.id].order_discount_percent = 50
    /\ db_order[last.id].total = 6

\* C2: an applied update that supplies items and/or a discount stores the
\* totals priced from the supplied values, an omitted one of the two being
\* taken from the order as it was persisted before the update.
C2_UpdatePricesFromPersisted ==
    [][(last'.op = "update_order" /\ last'.code = 200
          /\ Supplied(Val(last'.req)) \cap {"items", "order_discount_percent"} # {})
       => LET payload == Val(last'.req)
              before == db_order[last'.id]
              after == db_order'[last'.id]
              discount_only ==
                  IsNone(payload.items) /\ ~IsNone(payload.order_discount_percent)
              items_only ==
                  ~IsNone(payload.items) /\ IsNone(payload.order_discount_percent)
              both ==
                  ~IsNone(payload.items) /\ ~IsNone(payload.order_discount_percent)
          IN  /\ discount_only =>
                    /\ after.items = before.items
                    /\ after.order_discount_percent = Val(payload.order_discount_percent)
                    /\ Derived(after) =
                           compute_totals(before.items,
                                          Val(payload.order_discount_percent))
              /\ items_only =>
                    /\ after.items = Val(payload.items)
                    /\ after.order_discount_percent = before.order_discount_percent
                    /\ Derived(after) =
                           compute_totals(Val(payload.items),
                                          before.order_discount_percent)
              /\ both =>
                    /\ after.items = Val(payload.items)
                    /\ after.order_discount_percent = Val(payload.order_discount_percent)
                    /\ Derived(after) =
                           compute_totals(Val(payload.items),
                                          Val(payload.order_discount_percent))]_vars

\* an items-only update has replaced the items of an order whose persisted
\* discount is 50
C2_Witness ==
    /\ Updated
    /\ Supplied(Val(last.req)) = {"items"}
    /\ db_order[last.id].order_discount_percent = 50
    /\ Len(db_order[last.id].items) = 1
    /\ db_order[last.id].total = 6

\* C3: an applied update that supplies only status changes the status of
\* that order and nothing else in the order collection.
C3_StatusOnlyKeepsTotals ==
    [][(last'.op = "update_order" /\ last'.code = 200
          /\ Supplied(Val(last'.req)) = {"status"})
       => db_order' = [db_order EXCEPT
                         ![last'.id].status = Val(Val(last'.req).status)]]_vars

\* a status-only update of an order with a non-zero total has been applied
C3_Witness ==
    /\ Updated
    /\ Supplied(Val(last.req)) = {"status"}
    /\ db_order[last.id].status = "Paid"
    /\ db_order[last.id].total # 0
    /\ db_order[last.id].order_discount_percent # 0

\* C4: no two stored customers have the same email.
C4_EmailUnique ==
    \A c1, c2 \in DOMAIN db_customer :
        c1 # c2 => db_customer[c1].email # db_customer[c2].email

\* the customer id resolves to a stored customer
Resolves(customer_id) == ObjectIdValid(customer_id) /\ Found(db_customer, customer_id)

\* C5: create_order with a customer id that resolves to no stored customer
\* answers 400 (invalid customer reference).
C5_UnresolvedCustomerIs400 ==
    \A payload \in OrderCreateInputs :
        (OrderCreateValid(payload) /\ ~Resolves(payload.customer_id))
            => create_order_status(payload) = 400

\* C6: create_customer with the email of a stored customer answers 400 and
\* leaves the customer collection as it was.
C6_DuplicateEmailRejected ==
    [][(last'.op = "create_customer"
          /\ \E c \in DOMAIN db_customer :
                 db_customer[c].email = Val(last'.req).email)
       => /\ last'.code = 400
          /\ db_customer' = db_customer
          /\ customer_ids' = customer_ids]_vars

\* a create_customer with a stored customer's email has been answered
C6_Witness ==
    /\ last.op = "create_customer"
    /\ last.code = 400
    /\ \E c \in DOMAIN db_customer : db_customer[c].email = Val(last.req).email

\* C7: no stored order has an order_discount_percent outside [0,100], a
\* negative total or a negative discount_total.
C7_DiscountInRange ==
    \A o \in DOMAIN db_order :
        /\ db_order[o].order_discount_percent >= 0
        /\ db_order[o].order_discount_percent <= 100
        /\ db_order[o].total >= 0
        /\ db_order[o].discount_total >= 0

\* the harness has priced a valid item sequence with a discount in [0,100]
Priced == ~IsNone(p_out) /\ ItemsValid(p_items) /\ p_odp >= 0 /\ p_odp <= 100

\* round(subtotal - discount_total, 2) of two rounded outputs, in cents
RoundedDifference(t) == round2((t.subtotal - t.discount_total) * Micro)

C9_OrphanedOrderReadable ==
    [][/\ (last'.op = "delete_customer" /\ Resolves(last'.id))
            => /\ last'.code = 200
               /\ ~Found(db_customer', last'.id)
               /\ db_order' = db_order
       /\ (last'.op = "get_order" /\ ObjectIdValid(last'.id)
             /\ Found(db_order, last'.id)
             /\ ~Found(db_customer, db_order[last'.id].customer_id))
            => /\ last'.code = 200
               /\ last'.customer_name = None
               /\ db_order' = db_order]_vars

\* an order whose customer was deleted has been read
C9_Witness ==
    /\ last.op = "get_order"
    /\ last.code = 200
    /\ last.customer_name = None
    /\ Found(db_order, last.id)
    /\ db_order[last.id].customer_id = 1
    /\ ~Found(db_customer, 1)

\* C10: an order keeps the customer_id it was created with for as long as it
\* is stored.
C10_CustomerIdImmutable ==
    [][\A o \in DOMAIN db_order \cap DOMAIN db_order' :
           /\ "customer_id" \in DOMAIN db_order'[o]
           /\ db_order'[o].customer_id = db_order[o].customer_id]_vars

\* an update supplying all three fields has been applied
C10_Witness ==
    /\ Updated
    /\ Supplied(Val(last.req)) = {"status", "order_discount_percent", "items"}
    /\ db_order[last.id].customer_id = 1

\* C11: an applied update that supplies no field writes nothing: the order
\* collection (and the rest of the database) is as it was, however often the
\* update is repeated.
C11_EmptyUpdateIsNoOp ==
    [][(last'.op = "update_order" /\ last'.code = 200
          /\ Supplied(Val(last'.req)) = {})
       => UNCHANGED store]_vars

\* an empty update of a paid order with a non-zero total has been answered
C11_Witness ==
    /\ Updated
    /\ Supplied(Val(last.req)) = {}
    /\ db_order[last.id].status = "Paid"
    /\ db_order[last.id].total # 0

\* the order id resolves to a stored order
ResolvesOrder(order_id) == ObjectIdValid(order_id) /\ Found(db_order, order_id)

\* C12: update_order (with a valid body) and delete_order of an order id that
\* resolves to no stored order answer 404.
C12_UnresolvedOrderIs404 ==
    \A order_id \in OrderIdInputs :
        ~ResolvesOrder(order_id) =>
            /\ by_id_status(db_order, order_id) = 404
            /\ \A payload \in OrderUpdateInputs :
                   OrderUpdateValid(payload)
                       => update_order_status(order_id, payload) = 404

\* C13: an update_order either leaves the order collection as it was, or is
\* answered 200 and leaves the addressed order with every supplied field
\* stored, every omitted field as before and the totals priced from the
\* stored items and discount.
C13_UpdateAllOrNothing ==
    [][last'.op = "update_order"
       => \/ db_order' = db_order
          \/ /\ last'.code = 200
             /\ LET payload == Val(last'.req)
                    before == db_order[last'.id]
                    after == db_order'[last'.id]
                IN  /\ after.status = IF IsNone(payload.status) THEN before.status
                                      ELSE Val(payload.status)
                    /\ after.items = IF IsNone(payload.items) THEN before.items
                                     ELSE Val(payload.items)
                    /\ after.order_discount_percent =
                           IF IsNone(payload.order_discount_percent)
                           THEN before.order_discount_percent
                           ELSE Val(payload.order_discount_percent)
                    /\ after.customer_id = before.customer_id
                    /\ Derived(after) =
                           compute_totals(after.items, after.order_discount_percent)
                    /\ \A o \in DOMAIN db_order' \ {last'.id} :
                           db_order'[o] = db_order[o]]_vars

\* an update supplying all three fields has changed the totals of an order
C13_Witness ==
    /\ Updated
    /\ Supplied(Val(last.req)) = {"status", "order_discount_percent", "items"}
    /\ db_order[last.id].order_discount_percent = 50
    /\ db_order[last.id].total = 6

\* C16: compute_totals of the empty item sequence is (0, 0, 0) for every
\* order discount in [0,100].
C16_EmptyItemsAreZero ==
    (Priced /\ Len(p_items) = 0)
        => Val(p_out) = [subtotal |-> 0, discount_total |-> 0, total |-> 0]

\* the empty sequence has been priced with an order discount of 100
C16_Witness ==
    /\ Priced
    /\ Len(p_items) = 0
    /\ p_odp = 100
    /\ Val(p_out).total = 0

\* C17: one item {quantity 2, unit_price 50.00, discount_percent 10} with
\* order_discount_percent 5 is priced (100.00, 14.50, 85.50).
C17_WorkedExample ==
    (Priced /\ p_items = <<MkItem(2, 5000, 10)>> /\ p_odp = 5)
        => Val(p_out) = [subtotal |-> 10000, discount_total |-> 1450, total |-> 8550]

\* the example has been priced
C17_Witness ==
    /\ Priced
    /\ p_items = <<MkItem(2, 5000, 10)>>
    /\ p_odp = 5
    /\ Val(p_out).discount_total = 1450

\* the step is the write step of the request call
Writes(call, pc) == inflight[call].pc = pc /\ inflight'[call].pc = "done"

\* C14: a create_customer whose lookup found the email free inserts its
\* customer and answers 200 whatever was stored since, so that an insert made
\* after another request stored the same email leaves two customers with it.
C14_InsertAfterStaleLookup ==
    [][\A call \in Calls :
           Writes(call, "insert")
               => LET customer == Val(inflight[call].req)
                  IN  /\ last'.op = "create_customer"
                      /\ last'.code = 200
                      /\ db_customer' =
                             create_document(db_customer, customer_ids + 1, customer)
                      /\ EmailExists(customer.email)
                             => \E c1, c2 \in DOMAIN db_customer' :
                                    /\ c1 # c2
                                    /\ db_customer'[c1].email = db_customer'[c2].email]_vars

\* both requests were answered 200 and their two customers share an email
C14_Witness ==
    /\ \A call \in Calls :
           inflight[call].pc = "done" /\ Found(db_customer, inflight[call].id)
    /\ inflight["A"].id # inflight["B"].id
    /\ db_customer[inflight["A"].id].email = db_customer[inflight["B"].id].email
    /\ last.op = "create_customer"
    /\ last.code = 200

\* C15: a create_order whose lookup found the customer inserts its order and
\* answers 200 whether or not the customer is still stored at the insert.
C15_InsertAfterCustomerDeleted ==
    [][\A call \in Calls :
           Writes(call, "insert")
               => LET payload == Val(inflight[call].req)
                  IN  /\ last'.op = "create_order"
                      /\ last'.code = 200
                      /\ db_order' =
                             create_document(db_order, order_ids + 1, order_doc(payload))
                      /\ db_order'[order_ids + 1].customer_id = payload.customer_id
                      /\ db_customer' = db_customer]_vars

\* the order just inserted references a customer that is not stored
C15_Witness ==
    /\ last.op = "create_order"
    /\ last.code = 200
    /\ Found(db_order, last.id)
    /\ \E call \in Calls : inflight[call].pc = "done" /\ inflight[call].id = last.id
    /\ ~Found(db_customer, db_order[last.id].customer_id)

\* C18 as stated: once both update_order requests are done, every stored
\* order's totals are compute_totals of its stored items and discount.
C18_InterleavedUpdatesStayPriced ==
    (\A call \in Calls : inflight[call].pc = "done")
        => \A o \in DOMAIN db_order :
               Derived(db_order[o]) =
                   compute_totals(MapSeq(OrderItem, db_order[o].items),
                                  db_order[o].order_discount_percent)

\* C18 as amended: the write of an update_order that supplies items and/or a
\* discount stores the totals priced from the supplied values and, for an
\* omitted one, from the order as this request read it.
C18_WritePricesFromItsRead ==
    [][\A call \in Calls :
           (/\ Writes(call, "write")
            /\ Found(db_order, inflight[call].id)
            /\ Supplied(Val(inflight[call].req))
                   \cap {"items", "order_discount_percent"} # {})
               => LET payload == Val(inflight[call].req)
                      d == Val(inflight[call].d)
                      after == db_order'[inflight[call].id]
                  IN  Derived(after) =
                          compute_totals(
                              IF IsNone(payload.items) THEN d.items
                              ELSE Val(payload.items),
                              IF IsNone(payload.order_discount_percent)
                              THEN d.order_discount_percent
                              ELSE Val(payload.order_discount_percent))]_vars

\* an items-only and a discount-only update that read the same order have
\* both written, and the stored totals are not those of the stored items and
\* discount
C18_Witness ==
    /\ \A call \in Calls : inflight[call].pc = "done" /\ ~IsNone(inflight[call].d)
    /\ inflight["A"].d = inflight["B"].d
    /\ inflight["A"].id = inflight["B"].id
    /\ Supplied(Val(inflight["A"].req)) = {"items"}
    /\ Supplied(Val(inflight["B"].req)) = {"order_discount_percent"}
    /\ LET d == db_order[inflight["A"].id]
       IN  /\ d.items = Val(Val(inflight["A"].req).items)
           /\ d.order_discount_percent = Val(Val(inflight["B"].req).order_discount_percent)
           /\ Derived(d) # compute_totals(d.items, d.order_discount_percent)

====
